---------------------------- MODULE Spec2Model ----------------------------
(***************************************************************************)
(* The three decision engines of the DIU admission portal (src/app.py):    *)
(*   - DIUWaiverCalculator.calculate_waivers behind POST /waivers/recommend*)
(*   - recommend_programs behind POST /recommendations                     *)
(*   - chat_with_bot behind POST /chat                                     *)
(*                                                                         *)
(* Conventions.  A Python str that the code takes apart (strip, int, lower,*)
(* split, substring, SequenceMatcher) is a sequence of one-character       *)
(* strings; a str that is only compared for equality (an id, a criterion   *)
(* tag, a program code) is a TLA+ string.  A GPA or SGPA x is the integer  *)
(* 1000 * x.  A score is an integer number of hundredths.  A JSON value of *)
(* a duck-typed field is tagged: None, Num(n) or Bool(b).                  *)
(*                                                                         *)
(* SpecWaivers, SpecRecommend, SpecCorpus and SpecChat take a request as   *)
(* one step of one server.  SpecWorkers takes calculate_waivers one        *)
(* database read at a time, for several server processes on one database   *)
(* file; call and response then hold one record per process.               *)
(***************************************************************************)
EXTENDS Integers, Sequences, FiniteSets, TLC

VARIABLES
    waiver_data,   \* DIUWaiverCalculator.waiver_data, loaded once by __init__
    programs,      \* rows (code, department_code) of table programs
    departments,   \* rows of table departments
    faqs,          \* rows (question, answer, keywords) of table faqs
    call,          \* the request being served, [op |-> "idle"] between requests
    response       \* what the handler returned for call

vars == <<waiver_data, programs, departments, faqs, call, response>>

---------------------------------------------------------------------------
(* Python values *)

None == [t |-> "none"]
Num(n) == [t |-> "num", n |-> n]
Bool(b) == [t |-> "bool", b |-> b]

\* bool(v) of Python: None, False and 0 are falsy.
Truthy(v) ==
    CASE v.t = "none" -> FALSE
      [] v.t = "bool" -> v.b
      [] v.t = "num" -> v.n # 0

\* dict.get(key): None when the key is absent.
Get(d, key) == IF key \in DOMAIN d THEN d[key] ELSE None

\* x in list
In(x, list) == \E i \in DOMAIN list : list[i] = x

Digits == <<"0", "1", "2", "3", "4", "5", "6", "7", "8", "9">>

IsDigit(c) == In(c, Digits)

DigitVal(c) == (CHOOSE i \in DOMAIN Digits : Digits[i] = c) - 1

RECURSIVE LStrip(_, _)
LStrip(s, chars) ==
    IF s # <<>> /\ Head(s) \in chars THEN LStrip(Tail(s), chars) ELSE s

RECURSIVE RStrip(_, _)
RStrip(s, chars) ==
    IF s # <<>> /\ s[Len(s)] \in chars
    THEN RStrip(SubSeq(s, 1, Len(s) - 1), chars)
    ELSE s

\* str.strip(chars): drops the leading and the trailing characters in chars.
Strip(s, chars) == RStrip(LStrip(s, chars), chars)

RECURSIVE DigitsValue(_)
DigitsValue(s) ==
    IF s = <<>> THEN 0
    ELSE 10 * DigitsValue(SubSeq(s, 1, Len(s) - 1)) + DigitVal(s[Len(s)])

\* int(s) of Python on a str of the characters used here (ASCII digits,
\* signs, blanks, letters, punctuation): surrounding blanks dropped, an
\* optional sign, then one or more decimal digits; anything else raises
\* ValueError (ok = FALSE).
ParseInt(s) ==
    LET t == Strip(s, {" "})
        signed == t # <<>> /\ Head(t) \in {"+", "-"}
        body == IF signed THEN Tail(t) ELSE t
        valid == body # <<>> /\ \A i \in DOMAIN body : IsDigit(body[i])
    IN  IF ~valid THEN [ok |-> FALSE, v |-> 0]
        ELSE [ok |-> TRUE,
              v |-> IF signed /\ Head(t) = "-"
                    THEN 0 - DigitsValue(body) ELSE DigitsValue(body)]

RECURSIVE NatToStr(_)
NatToStr(n) ==
    IF n < 10 THEN <<Digits[n + 1]>>
    ELSE NatToStr(n \div 10) \o <<Digits[(n % 10) + 1]>>

\* str(n) of Python on an int.
ToStr(n) == IF n < 0 THEN <<"-">> \o NatToStr(0 - n) ELSE NatToStr(n)

---------------------------------------------------------------------------
(* Waiver calculator *)

SSC_GPA_5 == "SSC GPA 5.0"
HSC_GPA_5 == "HSC GPA 5.0"
HSC_GPA_490_499 == "HSC GPA 4.90-4.99"
FAMILY_INCOME == "Family income below 50,000 BDT/month"
FREEDOM_FIGHTER == "Child of freedom fighter"
DIU_EMPLOYEE == "DIU employee or immediate relative"
SPORTS == "National or premier division sports achievement"
DIPLOMA == "Diploma in relevant field"
GROUP_ADMISSION == "Group admission of 5 or more students"
INTERNATIONAL == "International student status"

GPA_5_00 == 5000
GPA_4_90 == 4900
GPA_4_99 == 4990
INCOME_LIMIT == 50000

\* SELECT code FROM programs WHERE department_code = ?
RECURSIVE ProgramCodes(_, _)
ProgramCodes(rows, faculty) ==
    IF rows = <<>> THEN <<>>
    ELSE (IF Head(rows).department_code = faculty
          THEN <<Head(rows).code>> ELSE <<>>)
         \o ProgramCodes(Tail(rows), faculty)

\* any(code in waiver["applicable_programs"] for code in program_codes)
AppliesToFaculty(waiver, program_codes) ==
    \E i \in DOMAIN program_codes :
        In(program_codes[i], waiver.applicable_programs)

RECURSIVE MaxOf(_)
MaxOf(ns) ==
    IF Len(ns) = 1 THEN ns[1]
    ELSE LET m == MaxOf(Tail(ns)) IN IF ns[1] >= m THEN ns[1] ELSE m

\* The parse of waiver_rate: int(r.strip("%")) of the single string or the
\* maximum over the list; ok = FALSE when int() or max([]) raises ValueError.
WaiverPercentage(waiver_rate) ==
    IF waiver_rate.kind = "list"
    THEN LET parsed == [i \in DOMAIN waiver_rate.l |->
                            ParseInt(Strip(waiver_rate.l[i], {"%"}))]
         IN  IF waiver_rate.l = <<>> \/ \E i \in DOMAIN parsed : ~parsed[i].ok
             THEN [ok |-> FALSE, v |-> 0]
             ELSE [ok |-> TRUE,
                   v |-> MaxOf([i \in DOMAIN parsed |-> parsed[i].v])]
    ELSE ParseInt(Strip(waiver_rate.s, {"%"}))

SscGpa5Fails(criteria, ssc_gpa) ==
    In(SSC_GPA_5, criteria) /\ ssc_gpa < GPA_5_00

HscGpa5Fails(criteria, hsc_gpa) ==
    In(HSC_GPA_5, criteria) /\ hsc_gpa < GPA_5_00

HscGpaRangeFails(criteria, hsc_gpa) ==
    In(HSC_GPA_490_499, criteria) /\ (hsc_gpa < GPA_4_90 \/ hsc_gpa > GPA_4_99)

FamilyIncomeFails(criteria, student_profile) ==
    In(FAMILY_INCOME, criteria)
    /\ (~Truthy(Get(student_profile, "family_income"))
        \/ student_profile["family_income"].n >= INCOME_LIMIT)

FlagFails(criteria, student_profile, tag, key) ==
    In(tag, criteria) /\ ~Truthy(Get(student_profile, key))

ProfileFlagsFail(criteria, student_profile) ==
    \/ FlagFails(criteria, student_profile, FREEDOM_FIGHTER, "is_freedom_fighter_child")
    \/ FlagFails(criteria, student_profile, DIU_EMPLOYEE, "is_diu_employee_relative")
    \/ FlagFails(criteria, student_profile, SPORTS, "has_sports_achievement")
    \/ FlagFails(criteria, student_profile, DIPLOMA, "has_diploma")
    \/ FlagFails(criteria, student_profile, GROUP_ADMISSION, "group_admission")
    \/ FlagFails(criteria, student_profile, INTERNATIONAL, "is_international_student")

\* The comparison current_sgpa < sgpa_required is reached only behind the two
\* guards; on None it raises TypeError.
SgpaRaises(waiver, is_new_student, current_sgpa) ==
    waiver.sgpa_required > 0 /\ ~is_new_student /\ current_sgpa.t = "none"

\* SgpaFails with the boundary wrong: a student exactly at the required SGPA
\* is turned away.
SgpaFails_AtBoundary(waiver, is_new_student, current_sgpa) ==
    waiver.sgpa_required > 0 /\ ~is_new_student
    /\ current_sgpa.n <= waiver.sgpa_required

SgpaFails(waiver, is_new_student, current_sgpa) ==
    waiver.sgpa_required > 0 /\ ~is_new_student
    /\ current_sgpa.n < waiver.sgpa_required

MeetsCriteria(waiver, a) ==
    LET criteria == waiver.eligibility_criteria
    IN  ~ (\/ SscGpa5Fails(criteria, a.ssc_gpa)
           \/ HscGpa5Fails(criteria, a.hsc_gpa)
           \/ HscGpaRangeFails(criteria, a.hsc_gpa)
           \/ FamilyIncomeFails(criteria, a.student_profile)
           \/ ProfileFlagsFail(criteria, a.student_profile)
           \/ SgpaFails(waiver, a.is_new_student, a.current_sgpa))

EligibleEntry(waiver, waiver_percentage) ==
    [id |-> waiver.id,
     waiver_percentage |-> ToStr(waiver_percentage) \o <<"%">>,
     eligibility_criteria |-> waiver.eligibility_criteria,
     applicable_programs |-> waiver.applicable_programs,
     sgpa_required |-> waiver.sgpa_required]

\* key=lambda x: int(x["waiver_percentage"].strip("%"))
SortKey(entry) == ParseInt(Strip(entry.waiver_percentage, {"%"})).v

\* The place of e in a list already sorted by key descending: behind every
\* entry whose key is not smaller (sorted() is stable, also with reverse=True).
\* InsertDesc as an unstable sort would place e: before the entries of equal key.
RECURSIVE InsertDesc_Unstable(_, _)
InsertDesc_Unstable(sorted, e) ==
    IF sorted = <<>> THEN <<e>>
    ELSE IF SortKey(Head(sorted)) > SortKey(e)
         THEN <<Head(sorted)>> \o InsertDesc_Unstable(Tail(sorted), e)
         ELSE <<e>> \o sorted

RECURSIVE InsertDesc(_, _)
InsertDesc(sorted, e) ==
    IF sorted = <<>> THEN <<e>>
    ELSE IF SortKey(Head(sorted)) >= SortKey(e)
         THEN <<Head(sorted)>> \o InsertDesc(Tail(sorted), e)
         ELSE <<e>> \o sorted

RECURSIVE SortedByPercentage(_)
SortedByPercentage(eligible) ==
    IF eligible = <<>> THEN <<>>
    ELSE InsertDesc(SortedByPercentage(SubSeq(eligible, 1, Len(eligible) - 1)),
                    eligible[Len(eligible)])

\* The loop over self.waiver_data from rule i on; an exception raised for one
\* rule ends the whole call.
RECURSIVE WaiverLoop(_, _, _, _, _)
WaiverLoop(rules, rows, a, i, eligible) ==
    IF i > Len(rules) THEN [raised |-> FALSE, eligible |-> eligible]
    ELSE LET waiver == rules[i]
             program_codes == ProgramCodes(rows, a.faculty)
             pct == WaiverPercentage(waiver.waiver_rate)
         IN  IF ~AppliesToFaculty(waiver, program_codes)
             THEN WaiverLoop(rules, rows, a, i + 1, eligible)
             ELSE IF ~pct.ok \/ SgpaRaises(waiver, a.is_new_student, a.current_sgpa)
             THEN [raised |-> TRUE, eligible |-> <<>>]
             ELSE IF MeetsCriteria(waiver, a)
             THEN WaiverLoop(rules, rows, a, i + 1,
                             Append(eligible, EligibleEntry(waiver, pct.v)))
             ELSE WaiverLoop(rules, rows, a, i + 1, eligible)

\* calculate_waivers as called by recommend_waivers: the sorted list, or the
\* HTTP 500 the route makes of any exception.
CalculateWaivers(rules, rows, a) ==
    LET r == WaiverLoop(rules, rows, a, 1, <<>>)
    IN  IF r.raised THEN [status |-> 500, body |-> <<>>]
        ELSE [status |-> 200, body |-> SortedByPercentage(r.eligible)]


---------------------------------------------------------------------------
(* Department recommender *)

UpperCase == <<"A", "B", "C", "D", "E", "F", "G", "H", "I", "J", "K", "L", "M",
               "N", "O", "P", "Q", "R", "S", "T", "U", "V", "W", "X", "Y", "Z">>
LowerCase == <<"a", "b", "c", "d", "e", "f", "g", "h", "i", "j", "k", "l", "m",
               "n", "o", "p", "q", "r", "s", "t", "u", "v", "w", "x", "y", "z">>

ToLower ==
    [c \in {UpperCase[i] : i \in DOMAIN UpperCase} |->
        LowerCase[CHOOSE i \in DOMAIN UpperCase : UpperCase[i] = c]]

LowerChar(c) == IF c \in DOMAIN ToLower THEN ToLower[c] ELSE c

\* str.lower()
Lower(s) == [i \in DOMAIN s |-> LowerChar(s[i])]

\* x in y, for two str
IsSubstring(x, y) ==
    \E i \in 0..(Len(y) - Len(x)) : SubSeq(y, i + 1, i + Len(x)) = x

\* sep.join(list)
RECURSIVE Join(_, _)
Join(list, sep) ==
    IF list = <<>> THEN <<>>
    ELSE IF Len(list) = 1 THEN list[1]
    ELSE list[1] \o sep \o Join(Tail(list), sep)

KEYWORD_BOOST == 10
SCORE_THRESHOLD == 20
TOP_N == 5

\* avg_gpa: computed from the two GPAs when both are truthy, read nowhere.
AvgGpa(input) ==
    IF Truthy(input.ssc_gpa) /\ Truthy(input.hsc_gpa)
    THEN (input.ssc_gpa.n + input.hsc_gpa.n) \div 2
    ELSE 0

\* f"{' '.join(interests)} {academic_background} {' '.join(career_goals)}"
UserText(input) ==
    Join(input.interests, <<" ">>) \o <<" ">> \o input.academic_background
    \o <<" ">> \o Join(input.career_goals, <<" ">>)

\* InterestMatches without the lower() of the interest.
InterestMatches_CaseSensitive(interest, dept) ==
    \/ IsSubstring(interest, Lower(dept.description))
    \/ IsSubstring(interest, Lower(Join(dept.programs, <<" ">>)))

InterestMatches(interest, dept) ==
    \/ IsSubstring(Lower(interest), Lower(dept.description))
    \/ IsSubstring(Lower(interest), Lower(Join(dept.programs, <<" ">>)))

GoalMatches(goal, dept) == IsSubstring(Lower(goal), Lower(dept.description))

\* The two loops that add 0.1 per matching interest and per matching goal.
RECURSIVE InterestBoost(_, _)
InterestBoost(interests, dept) ==
    IF interests = <<>> THEN 0
    ELSE (IF InterestMatches(Head(interests), dept) THEN KEYWORD_BOOST ELSE 0)
         + InterestBoost(Tail(interests), dept)

RECURSIVE GoalBoost(_, _)
GoalBoost(goals, dept) ==
    IF goals = <<>> THEN 0
    ELSE (IF GoalMatches(Head(goals), dept) THEN KEYWORD_BOOST ELSE 0)
         + GoalBoost(Tail(goals), dept)

\* TotalScore with avg_gpa read: 0.05 more when both GPAs are given.
TotalScore_WithGpa(base_score, input, dept) ==
    base_score + InterestBoost(input.interests, dept)
    + GoalBoost(input.career_goals, dept)
    + (IF AvgGpa(input) > 0 THEN 5 ELSE 0)

TotalScore(base_score, input, dept) ==
    base_score + InterestBoost(input.interests, dept)
    + GoalBoost(input.career_goals, dept)

\* ScoreQualifies with the threshold included.
ScoreQualifies_Inclusive(total_score) == total_score >= SCORE_THRESHOLD

ScoreQualifies(total_score) == total_score > SCORE_THRESHOLD

Reasons(input, dept) ==
    LET matching_interests ==
            SelectSeq(input.interests, LAMBDA x : InterestMatches(x, dept))
        matching_goals ==
            SelectSeq(input.career_goals, LAMBDA g : GoalMatches(g, dept))
        reasons ==
            (IF matching_interests # <<>>
             THEN <<[label |-> "Matches interests",
                     items |-> Join(matching_interests, <<",", " ">>)]>>
             ELSE <<>>)
            \o (IF matching_goals # <<>>
                THEN <<[label |-> "Aligns with goals",
                        items |-> Join(matching_goals, <<",", " ">>)]>>
                ELSE <<>>)
    IN  IF reasons # <<>> THEN reasons
        ELSE <<[label |-> "General match based on profile", items |-> <<>>]>>

\* The loop over the departments from row i on.
RECURSIVE Recommendations(_, _, _, _)
Recommendations(rows, input, similarities, i) ==
    IF i > Len(rows) THEN <<>>
    ELSE LET dept == rows[i]
             total_score == TotalScore(similarities[i], input, dept)
         IN  (IF ScoreQualifies(total_score)
              THEN <<[department |-> [name |-> dept.name,
                                      description |-> dept.description,
                                      programs |-> dept.programs],
                      match_score |-> total_score,
                      reasons |-> Reasons(input, dept)]>>
              ELSE <<>>)
             \o Recommendations(rows, input, similarities, i + 1)

\* list.sort(key=match_score, reverse=True): stable.
RECURSIVE InsertByScore(_, _)
InsertByScore(sorted, e) ==
    IF sorted = <<>> THEN <<e>>
    ELSE IF Head(sorted).match_score >= e.match_score
         THEN <<Head(sorted)>> \o InsertByScore(Tail(sorted), e)
         ELSE <<e>> \o sorted

RECURSIVE SortedByScore(_)
SortedByScore(recs) ==
    IF recs = <<>> THEN <<>>
    ELSE InsertByScore(SortedByScore(SubSeq(recs, 1, Len(recs) - 1)),
                       recs[Len(recs)])

\* recommendations[:5]
TopN(recs) == SubSeq(recs, 1, IF Len(recs) < TOP_N THEN Len(recs) ELSE TOP_N)

\* recommend_programs, given what cosine_similarity returned.  With no
\* department row TfidfVectorizer.fit_transform raises ValueError (empty
\* vocabulary) and the route answers 500.
RecommendProgramsResult(rows, input, similarities) ==
    IF rows = <<>> THEN [status |-> 500, body |-> <<>>]
    ELSE [status |-> 200,
          body |-> TopN(SortedByScore(Recommendations(rows, input, similarities, 1)))]

\* The base score: TfidfVectorizer(stop_words="english", ngram_range=(1, 2),
\* min_df=1, max_features=500) fitted on the department documents, and
\* cosine_similarity of the user text's vector with each document's.

IsWordChar(c) ==
    \/ \E i \in DOMAIN LowerCase : c = LowerCase[i] \/ c = UpperCase[i]
    \/ IsDigit(c)
    \/ c = "_"

\* re.findall(r"(?u)\b\w\w+\b", text.lower()): the maximal runs of word
\* characters that are two characters long or longer; word is the run read
\* so far.
RECURSIVE Words(_, _)
Words(text, word) ==
    LET done == IF Len(word) >= 2 THEN <<word>> ELSE <<>>
    IN  IF text = <<>> THEN done
        ELSE IF IsWordChar(Head(text))
             THEN Words(Tail(text), Append(word, LowerChar(Head(text))))
             ELSE done \o Words(Tail(text), <<>>)

\* The entries of sklearn's ENGLISH_STOP_WORDS that occur in the texts
\* explored below.
StopWords == { <<"a", "n", "d">>, <<"o", "f">>, <<"t", "h", "e">> }

Tokens(text) == SelectSeq(Words(text, <<>>), LAMBDA w : w \notin StopWords)

\* ngram_range=(1, 2): every token, then every pair of adjacent tokens (the
\* stop words are dropped before the pairs are formed).  A term is the
\* sequence of its one or two tokens.
Ngrams(tokens) ==
    [i \in 1..Len(tokens) |-> <<tokens[i]>>]
    \o [i \in 1..(Len(tokens) - 1) |-> <<tokens[i], tokens[i + 1]>>]

Terms(text) == Ngrams(Tokens(text))

Count(term, terms) == Cardinality({ i \in DOMAIN terms : terms[i] = term })

\* f"{d['description']} {' '.join(d['programs'])} {d['faculty']}"
Document(dept) ==
    dept.description \o <<" ">> \o Join(dept.programs, <<" ">>)
    \o <<" ">> \o dept.faculty

\* vectorizer.vocabulary_: every term of every document (max_features keeps
\* the 500 most frequent terms; the tables explored hold fewer).
Vocabulary(rows) ==
    UNION { { Terms(Document(rows[i]))[k] : k \in DOMAIN Terms(Document(rows[i])) }
            : i \in DOMAIN rows }

DocumentFrequency(term, rows) ==
    Cardinality({ i \in DOMAIN rows : Count(term, Terms(Document(rows[i]))) > 0 })

\* Every term occurs in the same number of documents.  The weight of a term
\* is its count times idf = ln((1 + n) / (1 + df)) + 1; when all terms share
\* one df the idf is one common positive factor of every vector, and it
\* cancels in the cosine, which is then the cosine of the count vectors.
SameDocumentFrequency(rows) ==
    \A s, t \in Vocabulary(rows) :
        DocumentFrequency(s, rows) = DocumentFrequency(t, rows)

\* vectorizer.transform / fit_transform before weighting: the count of each
\* vocabulary term in the text.
CountVector(text, vocabulary) ==
    LET terms == Terms(text)
    IN  [t \in vocabulary |-> Count(t, terms)]

RECURSIVE Dot(_, _, _)
Dot(u, v, vocabulary) ==
    IF vocabulary = {} THEN 0
    ELSE LET t == CHOOSE t \in vocabulary : TRUE
         IN  u[t] * v[t] + Dot(u, v, vocabulary \ {t})

\* cosine_similarity(u, v) in hundredths, rounded down: the largest c with
\* (c / 100)^2 <= (u.v)^2 / (|u|^2 |v|^2); 0 for a zero vector.
CosineSimilarity(u, v, vocabulary) ==
    LET uv == Dot(u, v, vocabulary)
        uu == Dot(u, u, vocabulary)
        vv == Dot(v, v, vocabulary)
    IN  IF uv = 0 THEN 0
        ELSE CHOOSE c \in 0..100 :
                /\ c * c * uu * vv <= 10000 * uv * uv
                /\ (c + 1) * (c + 1) * uu * vv > 10000 * uv * uv

\* similarities: one base score per department row, for a table whose terms
\* share one document frequency.
TfidfSimilarities(rows, input) ==
    LET vocabulary == Vocabulary(rows)
        user_vector == CountVector(UserText(input), vocabulary)
    IN  [i \in DOMAIN rows |->
            CosineSimilarity(user_vector,
                             CountVector(Document(rows[i]), vocabulary),
                             vocabulary)]

---------------------------------------------------------------------------
(* FAQ matcher *)

\* difflib.SequenceMatcher.find_longest_match over the whole of a and b (no
\* junk; autojunk acts only on a b of 200 characters or more): the longest
\* common block, of those the one starting earliest in a, of those the one
\* starting earliest in b.  k = 0 when no character is shared.
LongestMatch(a, b) ==
    LET blocks == { <<i, j, k>> \in (1..Len(a)) \X (1..Len(b)) \X (1..Len(a)) :
                        /\ i + k - 1 <= Len(a)
                        /\ j + k - 1 <= Len(b)
                        /\ SubSeq(a, i, i + k - 1) = SubSeq(b, j, j + k - 1) }
    IN  IF blocks = {} THEN <<1, 1, 0>>
        ELSE CHOOSE m \in blocks :
                \A o \in blocks :
                    \/ m[3] > o[3]
                    \/ m[3] = o[3] /\ m[1] < o[1]
                    \/ m[3] = o[3] /\ m[1] = o[1] /\ m[2] <= o[2]

\* The sum of the sizes of get_matching_blocks(): the longest match, then the
\* same to its left and to its right.
RECURSIVE MatchedChars(_, _)
MatchedChars(a, b) ==
    IF a = <<>> \/ b = <<>> THEN 0
    ELSE LET m == LongestMatch(a, b)
             i == m[1]
             j == m[2]
             k == m[3]
         IN  IF k = 0 THEN 0
             ELSE k + MatchedChars(SubSeq(a, 1, i - 1), SubSeq(b, 1, j - 1))
                    + MatchedChars(SubSeq(a, i + k, Len(a)), SubSeq(b, j + k, Len(b)))

\* SequenceMatcher(None, a, b).ratio() as the fraction num/den: 2.0 * M / T,
\* and 1.0 when both strings are empty.
Ratio(a, b) ==
    IF Len(a) + Len(b) = 0 THEN [num |-> 1, den |-> 1]
    ELSE [num |-> 2 * MatchedChars(a, b), den |-> Len(a) + Len(b)]

Zero == [num |-> 0, den |-> 1]

\* The threshold 0.4
MATCH_THRESHOLD == [num |-> 4, den |-> 10]

Greater(x, y) == x.num * y.den > y.num * x.den

\* max(x, y) of Python: x unless y is greater.
Max2(x, y) == IF Greater(y, x) THEN y ELSE x

RECURSIVE MaxRatio(_)
MaxRatio(rs) ==
    IF Len(rs) = 1 THEN rs[1] ELSE Max2(rs[1], MaxRatio(Tail(rs)))

\* str.split(sep) for a non-empty separator.
RECURSIVE Split(_, _)
Split(s, sep) ==
    IF \E i \in 1..(Len(s) - Len(sep) + 1) : SubSeq(s, i, i + Len(sep) - 1) = sep
    THEN LET i == CHOOSE i \in 1..(Len(s) - Len(sep) + 1) :
                    /\ SubSeq(s, i, i + Len(sep) - 1) = sep
                    /\ \A h \in 1..(i - 1) : SubSeq(s, h, h + Len(sep) - 1) # sep
         IN  <<SubSeq(s, 1, i - 1)>> \o Split(SubSeq(s, i + Len(sep), Len(s)), sep)
    ELSE <<s>>

\* keywords NULL or "" (both <<>> here) give 0.
KeywordSimilarity(message, keywords) ==
    IF keywords = <<>> THEN Zero
    ELSE LET kws == Split(keywords, <<",", " ">>)
         IN  MaxRatio([i \in DOMAIN kws |-> Ratio(Lower(message), Lower(kws[i]))])

TotalSimilarity(message, faq) ==
    Max2(Ratio(Lower(message), Lower(faq.question)),
         KeywordSimilarity(message, faq.keywords))

\* IsBetter with ties going to the later entry.
IsBetter_OrEqual(total_similarity, highest_similarity) ==
    ~Greater(highest_similarity, total_similarity)

IsBetter(total_similarity, highest_similarity) ==
    Greater(total_similarity, highest_similarity)

\* The scan over the faqs from row i on.
RECURSIVE BestMatch(_, _, _, _, _)
BestMatch(rows, message, i, best_match, highest_similarity) ==
    IF i > Len(rows)
    THEN [best_match |-> best_match, highest_similarity |-> highest_similarity]
    ELSE LET total_similarity == TotalSimilarity(message, rows[i])
         IN  IF IsBetter(total_similarity, highest_similarity)
             THEN BestMatch(rows, message, i + 1, rows[i].answer, total_similarity)
             ELSE BestMatch(rows, message, i + 1, best_match, highest_similarity)

\* AboveThreshold with the threshold included.
AboveThreshold_Inclusive(highest_similarity) ==
    ~Greater(MATCH_THRESHOLD, highest_similarity)

AboveThreshold(highest_similarity) == Greater(highest_similarity, MATCH_THRESHOLD)

FALLBACK == "Sorry, I couldn't find an answer to your question. Please try rephrasing or contact support."

ChatResult(rows, message) ==
    LET r == BestMatch(rows, message, 1, None, Zero)
    IN  IF AboveThreshold(r.highest_similarity)
        THEN [status |-> 200, body |-> r.best_match]
        ELSE [status |-> 200, body |-> FALLBACK]

---------------------------------------------------------------------------
(* Waiver calculator: the configurations and requests explored *)

MaxRules == 3

Str20 == <<"2", "0", "%">>
Str35 == <<"3", "5", "%">>
Str10 == <<"1", "0", "%">>
Str100 == <<"1", "0", "0", "%">>
Str50 == <<"5", "0", "%">>
StrNA == <<"N", "/", "A">>

Single(s) == [kind |-> "str", s |-> s, l |-> <<>>]
Multi(l) == [kind |-> "list", s |-> <<>>, l |-> l]

Rule(id, rate, criteria, progs, sgpa) ==
    [id |-> id, waiver_rate |-> rate, eligibility_criteria |-> criteria,
     applicable_programs |-> progs, sgpa_required |-> sgpa]

\* Rules as data/waivers.json can hold them.  W6 carries a tag the calculator
\* has no branch for; W5 carries a rate that is no percentage.
RulePool ==
    { Rule("W1", Single(Str20), <<SSC_GPA_5>>, <<"CSE">>, 0),
      Rule("W2", Single(Str35), <<HSC_GPA_490_499>>, <<"CSE", "EEE">>, 0),
      Rule("W3", Multi(<<Str10, Str35>>), <<FAMILY_INCOME>>, <<"SWE">>, 0),
      Rule("W4", Single(Str20), <<HSC_GPA_5>>, <<"CSE", "EEE">>, 3000),
      Rule("W5", Single(StrNA), <<>>, <<"EEE">>, 0),
      Rule("W6", Single(Str50), <<"Alumni referral">>, <<"CSE">>, 0),
      Rule("W7", Single(Str100),
           <<FREEDOM_FIGHTER, DIU_EMPLOYEE, SPORTS, DIPLOMA, GROUP_ADMISSION,
             INTERNATIONAL>>,
           <<"SWE", "EEE">>, 0) }

\* Rule lists of at most MaxRules rules with pairwise distinct ids.
RuleLists ==
    { l \in UNION { [1..n -> RulePool] : n \in 0..MaxRules } :
        \A i, j \in DOMAIN l : i # j => l[i].id # l[j].id }

Catalog ==
    << [code |-> "CSE", department_code |-> "CS"],
       [code |-> "SWE", department_code |-> "CS"],
       [code |-> "EEE", department_code |-> "EE"] >>

Faculties == {"CS", "EE"}
SscGpas == {4900, 5000}
HscGpas == {4800, 4950, 4995, 5000}
Sgpas == {None, Num(2500), Num(3000)}

AllFlags(b) ==
    [is_freedom_fighter_child |-> Bool(b), is_diu_employee_relative |-> Bool(b),
     has_sports_achievement |-> Bool(b), has_diploma |-> Bool(b),
     group_admission |-> Bool(b), is_international_student |-> Bool(b)]

WithIncome(flags, v) ==
    [k \in DOMAIN flags \cup {"family_income"} |->
        IF k = "family_income" THEN v ELSE flags[k]]

Profiles ==
    { <<>>,
      WithIncome(AllFlags(FALSE), Num(0)),
      WithIncome(AllFlags(TRUE), Num(49999)),
      WithIncome(AllFlags(TRUE), Num(50000)),
      [family_income |-> None, is_freedom_fighter_child |-> Bool(TRUE),
       is_diu_employee_relative |-> None, has_sports_achievement |-> Bool(TRUE),
       has_diploma |-> Bool(TRUE), group_admission |-> Bool(TRUE)] }

WaiverInputs ==
    [faculty : Faculties, ssc_gpa : SscGpas, hsc_gpa : HscGpas,
     is_new_student : BOOLEAN, current_sgpa : Sgpas, student_profile : Profiles]

Idle == [op |-> "idle"]
NoResponse == [status |-> 0, body |-> <<>>]

InitWaivers ==
    /\ waiver_data \in RuleLists
    /\ programs = Catalog
    /\ departments = <<>>
    /\ faqs = <<>>
    /\ call = Idle
    /\ response = NoResponse

\* POST /waivers/recommend
RecommendWaivers ==
    /\ call.op = "idle"
    /\ \E input \in WaiverInputs :
        /\ call' = [op |-> "recommend_waivers", input |-> input]
        /\ response' = CalculateWaivers(waiver_data, programs, input)
    /\ UNCHANGED <<waiver_data, programs, departments, faqs>>

\* The response has gone out; the server waits for the next request.
Return ==
    /\ call.op # "idle"
    /\ call' = Idle
    /\ response' = NoResponse
    /\ UNCHANGED <<waiver_data, programs, departments, faqs>>

NextWaivers == RecommendWaivers \/ Return

SpecWaivers == InitWaivers /\ [][NextWaivers]_vars

---------------------------------------------------------------------------
(* Waiver calculator, one database read at a time: several server processes
   on one database file, each call a sequence of steps *)

\* The server processes.  Inside one process a call runs to its end before
\* the next one starts (the handler never awaits); the calls of different
\* processes, and the start-up of a further process, interleave between the
\* database reads.
Workers == {"w1", "w2"}

RuleById(id) == CHOOSE r \in RulePool : r.id = id

WorkerRuleLists ==
    { <<RuleById("W1"), RuleById("W4"), RuleById("W2")>>,
      <<RuleById("W4"), RuleById("W5")>>,
      <<RuleById("W2")>> }

WorkerInputs ==
    [faculty : Faculties, ssc_gpa : {5000}, hsc_gpa : {4950, 5000},
     is_new_student : {TRUE}, current_sgpa : {Num(3000)},
     student_profile : {<<>>}]

InitWorkers ==
    /\ waiver_data \in WorkerRuleLists
    /\ programs \in {<<>>, Catalog}
    /\ departments = <<>>
    /\ faqs = <<>>
    /\ call = [w \in Workers |-> Idle]
    /\ response = [w \in Workers |-> NoResponse]

\* Begin with the list of eligible waivers taken over from another call in
\* progress instead of a new empty list.
Begin_KeepsEligible(w) ==
    /\ call[w].op = "idle"
    /\ \E input \in WorkerInputs : \E v \in Workers :
        call' = [call EXCEPT ![w] =
                    [op |-> "recommend_waivers", input |-> input, i |-> 1,
                     eligible |-> IF call[v].op = "idle" THEN <<>>
                                  ELSE call[v].eligible,
                     reads |-> <<>>]]
    /\ UNCHANGED <<waiver_data, programs, departments, faqs, response>>

\* POST /waivers/recommend arrives at process w: calculate_waivers starts
\* with eligible = [].  reads keeps, for the record, the program codes each
\* iteration of this call got from the database.
Begin(w) ==
    /\ call[w].op = "idle"
    /\ \E input \in WorkerInputs :
        call' = [call EXCEPT ![w] =
                    [op |-> "recommend_waivers", input |-> input, i |-> 1,
                     eligible |-> <<>>, reads |-> <<>>]]
    /\ UNCHANGED <<waiver_data, programs, departments, faqs, response>>

\* One iteration of the loop over self.waiver_data: the SELECT on the
\* programs table as it is now, then the checks of rule i.  An exception
\* ends the call with HTTP 500.
Iterate(w) ==
    /\ call[w].op = "recommend_waivers"
    /\ response[w] = NoResponse
    /\ call[w].i <= Len(waiver_data)
    /\ LET c == call[w]
           r == WaiverLoop(<<waiver_data[c.i]>>, programs, c.input, 1, c.eligible)
           reads == Append(c.reads, ProgramCodes(programs, c.input.faculty))
       IN  IF r.raised
           THEN /\ call' = [call EXCEPT ![w].reads = reads]
                /\ response' = [response EXCEPT ![w] = [status |-> 500, body |-> <<>>]]
           ELSE /\ call' = [call EXCEPT ![w].i = c.i + 1,
                                        ![w].eligible = r.eligible,
                                        ![w].reads = reads]
                /\ UNCHANGED response
    /\ UNCHANGED <<waiver_data, programs, departments, faqs>>

\* The loop is over: return sorted(eligible, ...).
Finish(w) ==
    /\ call[w].op = "recommend_waivers"
    /\ response[w] = NoResponse
    /\ call[w].i > Len(waiver_data)
    /\ response' = [response EXCEPT ![w] =
                        [status |-> 200, body |-> SortedByPercentage(call[w].eligible)]]
    /\ UNCHANGED <<waiver_data, programs, departments, faqs, call>>

\* The response of process w has gone out.
Close(w) ==
    /\ response[w] # NoResponse
    /\ call' = [call EXCEPT ![w] = Idle]
    /\ response' = [response EXCEPT ![w] = NoResponse]
    /\ UNCHANGED <<waiver_data, programs, departments, faqs>>

\* A further process starts on the same database file, finds the programs
\* table empty and seeds it; the rows become visible with its one commit.
SeedData ==
    /\ programs = <<>>
    /\ programs' = Catalog
    /\ UNCHANGED <<waiver_data, departments, faqs, call, response>>

NextWorkers ==
    \/ \E w \in Workers : Begin(w)
    \/ \E w \in Workers : Iterate(w)
    \/ \E w \in Workers : Finish(w)
    \/ \E w \in Workers : Close(w)
    \/ SeedData

SpecWorkers == InitWorkers /\ [][NextWorkers]_vars

---------------------------------------------------------------------------
(* Department recommender: the configurations and requests explored *)

MaxDepts == 6

Dept(name, description, progs) ==
    [name |-> name, description |-> description, programs |-> progs]

DeptPool ==
    << Dept("D1", <<"R", "o", "b", "o", " ", "l", "a", "b">>, <<<<"C", "S", "E">>>>),
       Dept("D2", <<"w", "e", "b", " ", "d", "e", "v">>, <<<<"S", "W", "E">>>>),
       Dept("D3", <<"d", "a", "t", "a">>, <<<<"a", "i">>, <<"m", "l">>>>),
       Dept("D4", <<"l", "a", "w">>, <<<<"L", "L", "B">>>>),
       Dept("D5", <<"W", "e", "b", " ", "d", "a", "t", "a">>, <<>>),
       Dept("D6", <<"r", "o", "b", "o", " ", "w", "e", "b">>, <<<<"E", "E", "E">>>>),
       Dept("D7", <<"d", "e", "v", " ", "a", "i">>, <<<<"M", "I", "S">>>>) >>

DeptTables ==
    { SubSeq(DeptPool, 1, n) :
        n \in 0..(IF MaxDepts < Len(DeptPool) THEN MaxDepts ELSE Len(DeptPool)) }

InterestLists ==
    { <<>>, <<<<"r", "o", "b", "o">>>>, <<<<"W", "E", "B">>, <<"d", "a", "t", "a">>>>, <<<<"a", "i", " ", "m", "l">>>> }
GoalLists == { <<>>, <<<<"w", "e", "b">>, <<"l", "a", "w">>>> }
Background == <<"s", "c", "i", "e", "n", "c", "e">>
GpaPairs == { <<None, None>>, <<Num(5000), Num(4500)>> }

Query(i, b, g, p) ==
    [interests |-> i, academic_background |-> b, career_goals |-> g,
     ssc_gpa |-> p[1], hsc_gpa |-> p[2]]

\* Every combination of the lists above with a background text, and the
\* query that holds no text at all.
RecommendationInputs ==
    { Query(i, Background, g, p) :
        i \in InterestLists, g \in GoalLists, p \in GpaPairs }
    \cup { Query(<<>>, <<>>, <<>>, p) : p \in GpaPairs }

\* What cosine_similarity can return for a row, in hundredths.
BaseScores == {0, 10, 30}

HasLetter(text) ==
    \E i \in DOMAIN text : LowerChar(text[i]) \in {LowerCase[k] : k \in DOMAIN LowerCase}

\* The similarities sklearn computes are taken as given: one value per
\* department row, all 0 when the user text holds no word at all.
SimilarityVectors(rows, input) ==
    IF HasLetter(UserText(input))
    THEN [DOMAIN rows -> BaseScores]
    ELSE {[i \in DOMAIN rows |-> 0]}

InitRecommend ==
    /\ waiver_data = <<>>
    /\ programs = <<>>
    /\ departments \in DeptTables
    /\ faqs = <<>>
    /\ call = Idle
    /\ response = NoResponse

\* POST /recommendations
RecommendPrograms ==
    /\ call.op = "idle"
    /\ \E input \in RecommendationInputs :
        \E similarities \in SimilarityVectors(departments, input) :
            /\ call' = [op |-> "recommend_programs", input |-> input,
                        similarities |-> similarities]
            /\ response' = RecommendProgramsResult(departments, input, similarities)
    /\ UNCHANGED <<waiver_data, programs, departments, faqs>>

NextRecommend == RecommendPrograms \/ Return

SpecRecommend == InitRecommend /\ [][NextRecommend]_vars

---------------------------------------------------------------------------
(* Department recommender with the base score computed: the tables and
   requests explored *)

MaxCorpus == 2

DeptOf(name, description, progs, faculty) ==
    [name |-> name, description |-> description, programs |-> progs,
     faculty |-> faculty]

CorpusPool ==
    << DeptOf("T1", <<"S", "m", "a", "r", "t", " ", "g", "r", "i", "d">>,
              <<>>, <<"F", "E">>),
       DeptOf("T2", <<"A", "r", "t", " ", "a", "n", "d", " ", "d", "e", "s", "i", "g", "n">>,
              <<<<"B", "A">>>>, <<"F", "H">>),
       DeptOf("T3", <<"L", "a", "w">>, <<<<"L", "L", "B">>>>, <<"F", "L">>),
       DeptOf("T4", <<"r", "o", "b", "o", "t", " ", "l", "a", "b">>,
              <<<<"C", "S", "E">>>>, <<"F", "E">>) >>

\* The tables of one to MaxCorpus distinct departments of the pool, in any
\* order, whose terms share one document frequency.
CorpusTables ==
    LET picks == UNION { [1..n -> DOMAIN CorpusPool] : n \in 1..MaxCorpus }
        tables == { [k \in DOMAIN p |-> CorpusPool[p[k]]] :
                      p \in { q \in picks :
                                \A j, k \in DOMAIN q : j # k => q[j] # q[k] } }
    IN  { rows \in tables : SameDocumentFrequency(rows) }

CorpusInterestLists ==
    { <<>>, <<<<"g", "r", "i", "d">>>>,
      <<<<"G", "R", "I", "D">>, <<"g", "r", "i", "d">>>>,
      <<<<"s", "m", "a", "r", "t", " ", "g", "r", "i", "d">>>> }
CorpusGoalLists == { <<>>, <<<<"d", "e", "s", "i", "g", "n">>>> }
CorpusBackgrounds == { <<>>, Background }

CorpusInputs ==
    { Query(i, b, g, p) :
        i \in CorpusInterestLists, b \in CorpusBackgrounds,
        g \in CorpusGoalLists, p \in GpaPairs }

InitCorpus ==
    /\ waiver_data = <<>>
    /\ programs = <<>>
    /\ departments \in CorpusTables
    /\ faqs = <<>>
    /\ call = Idle
    /\ response = NoResponse

\* POST /recommendations, with the similarities computed from the texts
RecommendProgramsScored ==
    /\ call.op = "idle"
    /\ \E input \in CorpusInputs :
        LET similarities == TfidfSimilarities(departments, input)
        IN  /\ call' = [op |-> "recommend_programs", input |-> input,
                        similarities |-> similarities]
            /\ response' = RecommendProgramsResult(departments, input, similarities)
    /\ UNCHANGED <<waiver_data, programs, departments, faqs>>

NextCorpus == RecommendProgramsScored \/ Return

SpecCorpus == InitCorpus /\ [][NextCorpus]_vars

---------------------------------------------------------------------------
(* FAQ matcher: the configurations and requests explored *)

MaxFaqs == 3

Faq(question, answer, keywords) ==
    [question |-> question, answer |-> answer, keywords |-> keywords]

\* An answer is a non-empty text; only its identity matters.
FaqPool ==
    { Faq(<<"f", "e", "e", "s">>, "A1", <<"c", "o", "s", "t", ",", " ", "f", "e", "e">>),
      Faq(<<"F", "E", "E", "S">>, "A2", <<>>),
      Faq(<<"h", "a", "l", "l">>, "A3", <<"f", "e", "e", "s">>),
      Faq(<<"b", "c", "d">>, "A4", <<>>),
      Faq(<<"c", "o", "s", "t">>, "A5", <<"a", "b", ",", " ", "x">>) }

FaqTables ==
    { l \in UNION { [1..n -> FaqPool] : n \in 0..MaxFaqs } :
        \A i, j \in DOMAIN l : i # j => l[i] # l[j] }

Messages == { <<"f", "e", "e", "s">>, <<"F", "e", "e">>, <<"a", "b">>, <<"z", "z">>, <<>>, <<"c", "o", "s", "t">> }

InitChat ==
    /\ waiver_data = <<>>
    /\ programs = <<>>
    /\ departments = <<>>
    /\ faqs \in FaqTables
    /\ call = Idle
    /\ response = NoResponse

\* POST /chat
ChatWithBot ==
    /\ call.op = "idle"
    /\ \E message \in Messages :
        /\ call' = [op |-> "chat_with_bot", input |-> [message |-> message]]
        /\ response' = ChatResult(faqs, message)
    /\ UNCHANGED <<waiver_data, programs, departments, faqs>>

NextChat == ChatWithBot \/ Return

SpecChat == InitChat /\ [][NextChat]_vars

---------------------------------------------------------------------------
(* Waiver calculator: what the specification says, in its own terms *)

KnownTags ==
    {SSC_GPA_5, HSC_GPA_5, HSC_GPA_490_499, FAMILY_INCOME, FREEDOM_FIGHTER,
     DIU_EMPLOYEE, SPORTS, DIPLOMA, GROUP_ADMISSION, INTERNATIONAL}

IsTrue(profile, key) ==
    key \in DOMAIN profile /\ profile[key].t = "bool" /\ profile[key].b

IncomePresentAndBelowLimit(profile) ==
    /\ "family_income" \in DOMAIN profile
    /\ profile["family_income"].t = "num"
    /\ profile["family_income"].n < 50000

\* The predicate table of the specification; a tag outside the table has no
\* predicate to pass.
TagPasses(tag, input) ==
    CASE tag = SSC_GPA_5 -> input.ssc_gpa >= 5000
      [] tag = HSC_GPA_5 -> input.hsc_gpa >= 5000
      [] tag = HSC_GPA_490_499 -> 4900 <= input.hsc_gpa /\ input.hsc_gpa <= 4990
      [] tag = FAMILY_INCOME -> IncomePresentAndBelowLimit(input.student_profile)
      [] tag = FREEDOM_FIGHTER -> IsTrue(input.student_profile, "is_freedom_fighter_child")
      [] tag = DIU_EMPLOYEE -> IsTrue(input.student_profile, "is_diu_employee_relative")
      [] tag = SPORTS -> IsTrue(input.student_profile, "has_sports_achievement")
      [] tag = DIPLOMA -> IsTrue(input.student_profile, "has_diploma")
      [] tag = GROUP_ADMISSION -> IsTrue(input.student_profile, "group_admission")
      [] tag = INTERNATIONAL -> IsTrue(input.student_profile, "is_international_student")
      [] OTHER -> FALSE

AllTagsPass(criteria, input) ==
    \A k \in DOMAIN criteria : TagPasses(criteria[k], input)

DepartmentCodes(faculty) ==
    { programs[i].code : i \in { j \in DOMAIN programs :
                                    programs[j].department_code = faculty } }

Intersects(applicable_programs, faculty) ==
    \E c \in DepartmentCodes(faculty) : In(c, applicable_programs)

SgpaExcludes(w, input) ==
    /\ w.sgpa_required > 0
    /\ ~input.is_new_student
    /\ input.current_sgpa.t = "num"
    /\ input.current_sgpa.n < w.sgpa_required

Qualifies(w, input) ==
    /\ Intersects(w.applicable_programs, input.faculty)
    /\ AllTagsPass(w.eligibility_criteria, input)
    /\ ~SgpaExcludes(w, input)

Called == call.op = "recommend_waivers"
Served == Called /\ response.status = 200

InBody(id, resp) == \E i \in DOMAIN resp.body : resp.body[i].id = id

TimesInBody(id, resp) ==
    Cardinality({ i \in DOMAIN resp.body : resp.body[i].id = id })

IndexOf(id) == CHOOSE i \in DOMAIN waiver_data : waiver_data[i].id = id

\* The percentage of the rule an entry was made from.
RulePercentage(entry) ==
    WaiverPercentage(waiver_data[IndexOf(entry.id)].waiver_rate).v

\* C1: every rule in the result has all the tags of its eligibility_criteria
\* passing their predicates against the student's inputs, and its
\* applicable_programs holds a program code of the requested department.
C1_ResultRulesPassAllTags ==
    Served =>
        \A i \in DOMAIN response.body :
            /\ AllTagsPass(response.body[i].eligibility_criteria, call.input)
            /\ Intersects(response.body[i].applicable_programs, call.input.faculty)

\* What the calculator does guarantee for the tags it has a branch for: every
\* known tag of a returned rule passes, and the rule's programs intersect.
ResultRulesPassKnownTags ==
    Served =>
        \A i \in DOMAIN response.body :
            /\ \A k \in DOMAIN response.body[i].eligibility_criteria :
                response.body[i].eligibility_criteria[k] \in KnownTags
                => TagPasses(response.body[i].eligibility_criteria[k], call.input)
            /\ Intersects(response.body[i].applicable_programs, call.input.faculty)

\* C2: a rule carrying a tag that is not one of the ten known tags is never in
\* the result.
C2_UnknownTagsFailClosed ==
    Served =>
        \A i \in DOMAIN waiver_data :
            (\E k \in DOMAIN waiver_data[i].eligibility_criteria :
                waiver_data[i].eligibility_criteria[k] \notin KnownTags)
            => ~InBody(waiver_data[i].id, response)

\* C3: every qualifying rule (programs intersect, all tags pass, SGPA
\* requirement met) is in the returned list exactly once.
C3_EveryQualifyingRuleReturned ==
    Served =>
        \A i \in DOMAIN waiver_data :
            Qualifies(waiver_data[i], call.input)
            => TimesInBody(waiver_data[i].id, response) = 1

\* C4: the returned list is ordered by percentage descending, and entries of
\* equal percentage keep the order of their rules in the rule list.
C4_SortedDescendingStable ==
    Served =>
        \A i, j \in DOMAIN response.body :
            i < j =>
                LET a == response.body[i]
                    b == response.body[j]
                IN  /\ RulePercentage(a) >= RulePercentage(b)
                    /\ RulePercentage(a) = RulePercentage(b)
                       => IndexOf(a.id) < IndexOf(b.id)

\* A served list of three in which the sort moved a rule forward and kept a
\* tie in encounter order.
C4_Witness ==
    /\ Served
    /\ Len(response.body) = 3
    /\ \E i, j \in DOMAIN response.body :
        i < j /\ IndexOf(response.body[i].id) > IndexOf(response.body[j].id)
    /\ \E i, j \in DOMAIN response.body :
        i < j /\ RulePercentage(response.body[i]) = RulePercentage(response.body[j])

\* The inputs on which current_sgpa < sgpa_required is defined or not reached.
SgpaComparable(input) == input.is_new_student \/ input.current_sgpa.t = "num"

C6_FamilyIncomeBelowLimit ==
    Served =>
        \A i \in DOMAIN waiver_data :
            LET w == waiver_data[i]
                others == SelectSeq(w.eligibility_criteria,
                                    LAMBDA t : t # FAMILY_INCOME)
            IN  (/\ In(FAMILY_INCOME, w.eligibility_criteria)
                 /\ Intersects(w.applicable_programs, call.input.faculty)
                 /\ AllTagsPass(others, call.input)
                 /\ ~SgpaExcludes(w, call.input))
                => (InBody(w.id, response)
                    <=> IncomePresentAndBelowLimit(call.input.student_profile))

\* "an integer followed by '%'"
IsPercentage(s) ==
    /\ Len(s) >= 2
    /\ s[Len(s)] = "%"
    /\ \A i \in 1..(Len(s) - 1) : IsDigit(s[i])

WellFormedRate(waiver_rate) ==
    IF waiver_rate.kind = "list"
    THEN waiver_rate.l # <<>>
         /\ \A i \in DOMAIN waiver_rate.l : IsPercentage(waiver_rate.l[i])
    ELSE IsPercentage(waiver_rate.s)

\* C10: a rule with a malformed percentage string never appears in the
\* result, and the other rules are evaluated and returned as they would be
\* without it.
C10_MalformedRateSkipped ==
    Called =>
        LET wellFormed == SelectSeq(waiver_data,
                                    LAMBDA w : WellFormedRate(w.waiver_rate))
        IN  /\ \A i \in DOMAIN waiver_data :
                ~WellFormedRate(waiver_data[i].waiver_rate)
                => ~InBody(waiver_data[i].id, response)
            /\ response = CalculateWaivers(wellFormed, programs, call.input)

---------------------------------------------------------------------------
(* Department recommender: what the specification says, in its own terms *)

RCalled == call.op = "recommend_programs"
RServed == RCalled /\ response.status = 200

KeywordMatches(i) ==
    LET dept == departments[i]
        text == Lower(Join(dept.programs, <<" ">>))
    IN  Cardinality({ k \in DOMAIN call.input.interests :
                        \/ IsSubstring(Lower(call.input.interests[k]), Lower(dept.description))
                        \/ IsSubstring(Lower(call.input.interests[k]), text) })
        + Cardinality({ k \in DOMAIN call.input.career_goals :
                        IsSubstring(Lower(call.input.career_goals[k]), Lower(dept.description)) })

\* base cosine similarity + 0.1 per keyword match, in hundredths
MatchScore(i) == call.similarities[i] + 10 * KeywordMatches(i)

Returned(i) ==
    \E k \in DOMAIN response.body :
        response.body[k].department.name = departments[i].name

\* The departments that come before department i in the ranking, ms being
\* the match score of every row: above the threshold with a higher score, or
\* with the same score and an earlier row.
RankedBefore(ms, i) ==
    { j \in DOMAIN ms : ms[j] > 20 /\ (ms[j] > ms[i] \/ (ms[j] = ms[i] /\ j < i)) }

SortedByMatchScore ==
    \A k, l \in DOMAIN response.body :
        k < l => response.body[k].match_score >= response.body[l].match_score

\* C7 as stated: d is returned iff match_score(d) > 0.2, the list has at most
\* 5 entries and is sorted by match_score descending.
C7_ReturnedIffAboveThreshold ==
    RServed =>
        /\ \A i \in DOMAIN departments : Returned(i) <=> MatchScore(i) > 20
        /\ Len(response.body) <= 5
        /\ SortedByMatchScore

\* C7 as amended: d is returned iff match_score(d) > 0.2 and fewer than 5
\* departments are ranked before it; each entry carries base similarity plus
\* boosts; the list has at most 5 entries, sorted by match_score descending.
C7_ReturnedIffAboveThresholdInTop5 ==
    RServed =>
        LET ms == [i \in DOMAIN departments |-> MatchScore(i)]
        IN  /\ \A i \in DOMAIN departments :
                Returned(i) <=> (ms[i] > 20 /\ Cardinality(RankedBefore(ms, i)) < 5)
            /\ \A k \in DOMAIN response.body :
                \E i \in DOMAIN departments :
                    /\ response.body[k].department.name = departments[i].name
                    /\ response.body[k].match_score = ms[i]
            /\ Len(response.body) <= 5
            /\ SortedByMatchScore

\* Six departments are above the threshold, one of them by its keyword
\* boosts alone, and the lowest ranked of them is cut off.
C7_Witness ==
    /\ RServed
    /\ Cardinality({ i \in DOMAIN departments : MatchScore(i) > 20 }) = 6
    /\ Len(response.body) = 5
    /\ \E i \in DOMAIN departments : MatchScore(i) > 20 /\ ~Returned(i)
    /\ \E i \in DOMAIN departments :
        Returned(i) /\ call.similarities[i] = 0 /\ MatchScore(i) > 20
    /\ response.body[1].match_score > response.body[5].match_score

---------------------------------------------------------------------------
(* FAQ matcher: what the specification says, in its own terms *)

CCalled == call.op = "chat_with_bot"

SameIgnoringCase(x, y) == Lower(x) = Lower(y)

ExactQuestion(i) == SameIgnoringCase(call.input.message, faqs[i].question)

ExactKeyword(i) ==
    /\ faqs[i].keywords # <<>>
    /\ LET kws == Split(faqs[i].keywords, <<",", " ">>)
       IN  \E k \in DOMAIN kws : SameIgnoringCase(call.input.message, kws[k])

\* The larger of the question ratio and the best keyword ratio.
Score(i) == TotalSimilarity(call.input.message, faqs[i])

\* C8 as stated: a message equal, ignoring case, to the question of entry e
\* gets the answer of e, whatever the table.
C8_ExactQuestionGetsItsAnswer ==
    CCalled =>
        \A i \in DOMAIN faqs : ExactQuestion(i) => response.body = faqs[i].answer

\* C8 as amended: a message equal, ignoring case, to the question of some
\* entry gets the answer of the first entry in table order whose question or
\* one of whose keyword phrases equals the message ignoring case.
C8_ExactQuestionGetsFirstExactAnswer ==
    CCalled =>
        \A i \in DOMAIN faqs :
            ExactQuestion(i) =>
                LET first == CHOOSE j \in DOMAIN faqs :
                                /\ ExactQuestion(j) \/ ExactKeyword(j)
                                /\ \A h \in 1..(j - 1) :
                                    ~(ExactQuestion(h) \/ ExactKeyword(h))
                IN  response.body = faqs[first].answer

\* The message is the question of a later entry and a keyword of an earlier
\* one, which answers.
C8_Witness ==
    /\ CCalled
    /\ \E i, j \in DOMAIN faqs :
        /\ j < i
        /\ ExactQuestion(i)
        /\ ExactKeyword(j) /\ ~ExactQuestion(j)
        /\ faqs[j].answer # faqs[i].answer
        /\ response.body = faqs[j].answer

---------------------------------------------------------------------------
(* Department recommender: the effect of one more interest keyword *)

AddedKeywords ==
    { <<"a", "r", "t">>, <<"G", "R", "I", "D">>, <<"l", "a", "b">>, <<"z", "z">> }

WithInterest(input, keyword) ==
    [input EXCEPT !.interests = Append(@, keyword)]

InDescription(keyword, i) ==
    IsSubstring(Lower(keyword), Lower(departments[i].description))

\* The number of list entries of a query that match department i.
MatchingEntries(input, i) ==
    LET dept == departments[i]
        text == Lower(Join(dept.programs, <<" ">>))
    IN  Cardinality({ k \in DOMAIN input.interests :
                        \/ IsSubstring(Lower(input.interests[k]), Lower(dept.description))
                        \/ IsSubstring(Lower(input.interests[k]), text) })
        + Cardinality({ k \in DOMAIN input.career_goals :
                        IsSubstring(Lower(input.career_goals[k]), Lower(dept.description)) })

Listed(body, i) ==
    \E k \in DOMAIN body : body[k].department.name = departments[i].name

ScoreIn(body, i) ==
    body[CHOOSE k \in DOMAIN body :
            body[k].department.name = departments[i].name].match_score

\* What the same table answers to the query of the call with one more
\* interest keyword, and the base scores it computes for it.
BaseWith(keyword) == TfidfSimilarities(departments, WithInterest(call.input, keyword))

AnswerWith(keyword) ==
    RecommendProgramsResult(departments, WithInterest(call.input, keyword),
                            BaseWith(keyword)).body

\* C11 as stated: one more interest keyword that is a substring (ignoring
\* case) of d's description never lowers d's match_score and raises it by
\* exactly 0.1.
C11_KeywordRaisesScoreByExactlyBoost ==
    RServed =>
        \A keyword \in AddedKeywords : \A i \in DOMAIN departments :
            (InDescription(keyword, i) /\ Listed(response.body, i)) =>
                /\ Listed(AnswerWith(keyword), i)
                /\ ScoreIn(AnswerWith(keyword), i) = ScoreIn(response.body, i) + 10

\* C11 as amended: one more interest keyword that is a substring (ignoring
\* case) of d's description raises d's keyword boost by exactly 0.1, the
\* boost being 0.1 per matching list entry with no cap; d's match_score is
\* the base similarity of the longer query plus that boost, so it changes by
\* 0.1 plus the change of the base similarity.
C11_KeywordRaisesBoostByExactlyBoost ==
    RServed =>
        \A keyword \in AddedKeywords : \A i \in DOMAIN departments :
            InDescription(keyword, i) =>
                LET before == response.body
                    after == AnswerWith(keyword)
                    matches == MatchingEntries(call.input, i)
                IN  /\ Listed(before, i) =>
                        ScoreIn(before, i) = call.similarities[i] + 10 * matches
                    /\ Listed(after, i) =>
                        ScoreIn(after, i) = BaseWith(keyword)[i] + 10 * (matches + 1)
                    /\ (Listed(before, i) /\ Listed(after, i)) =>
                        ScoreIn(after, i) - ScoreIn(before, i)
                            = 10 + (BaseWith(keyword)[i] - call.similarities[i])

\* A department that already has a keyword match gets one more from the
\* added keyword, and its match_score goes down because its base similarity
\* falls by more than 0.1.
C11_Witness ==
    /\ RServed
    /\ \E keyword \in AddedKeywords : \E i \in DOMAIN departments :
        /\ InDescription(keyword, i)
        /\ MatchingEntries(call.input, i) >= 1
        /\ Listed(response.body, i)
        /\ Listed(AnswerWith(keyword), i)
        /\ BaseWith(keyword)[i] < call.similarities[i] - 10
        /\ ScoreIn(AnswerWith(keyword), i) < ScoreIn(response.body, i)

---------------------------------------------------------------------------
(* Waiver calculator, one database read at a time: what the specification
   says, in its own terms *)

Answered(w) == response[w] # NoResponse

\* The program-code lists the call of process w has read so far.
ReadsOf(w) == { call[w].reads[k] : k \in DOMAIN call[w].reads }

\* Every read of the two calls found the same program codes.
SameCatalog(w, v) == Cardinality(ReadsOf(w) \cup ReadsOf(v)) <= 1

\* C12: two calls with identical arguments that found the same catalog (and
\* share the rule list) yield identical ordered output, and no step of a
\* call changes waiver_data or the programs table.
C12_SameArgumentsSameOutput ==
    [][ \A w \in Workers :
            (call'[w] # call[w] \/ response'[w] # response[w]) =>
                /\ waiver_data' = waiver_data
                /\ programs' = programs
                /\ \A v \in Workers :
                    (/\ Answered(w)' /\ Answered(v)'
                     /\ call'[w].input = call'[v].input
                     /\ SameCatalog(w, v)') => response'[w] = response'[v] ]_vars

\* Two calls with the same arguments have both returned two waivers, in
\* descending order, from the same program codes.
C12_Witness ==
    \E w, v \in Workers :
        /\ w # v
        /\ Answered(w) /\ Answered(v)
        /\ call[w].input = call[v].input
        /\ SameCatalog(w, v)
        /\ \E codes \in ReadsOf(w) : codes # <<>>
        /\ response[w].status = 200
        /\ Len(response[w].body) >= 2
        /\ response[w].body[1].id # response[w].body[2].id
        /\ response[v] = response[w]

---------------------------------------------------------------------------
(* Department recommender: the GPAs of the query *)

\* GPA values a query can carry: absent, zero, one of the two, both.
AnyGpaPairs ==
    GpaPairs \cup { <<Num(5000), None>>, <<None, Num(3500)>>,
                    <<Num(0), Num(4000)>>, <<Num(3000), Num(5000)>> }

WithGpas(input, p) == [input EXCEPT !.ssc_gpa = p[1], !.hsc_gpa = p[2]]

\* C13: the response to a query is the response to the same interests,
\* background and goals with any other GPA values, absent ones included:
\* same status, same ranked list, same match scores and reasons.
C13_OutputIndependentOfGpa ==
    RCalled =>
        \A p \in AnyGpaPairs :
            RecommendProgramsResult(departments, WithGpas(call.input, p),
                TfidfSimilarities(departments, WithGpas(call.input, p)))
                = response

\* A query with both GPAs gets a ranked list of two departments, and the
\* same query without GPAs is among those compared.
C13_Witness ==
    /\ RServed
    /\ AvgGpa(call.input) > 0
    /\ Len(response.body) >= 2
    /\ response.body[1].match_score > response.body[2].match_score
    /\ WithGpas(call.input, <<None, None>>) # call.input

\* The contents the programs table has had.
CatalogStates == {<<>>, Catalog}

\* The call of process w has returned what evaluating every rule against
\* the one table rows gives, rows being a table this call has read from.
FromOneSnapshot(w, rows) ==
    /\ ProgramCodes(rows, call[w].input.faculty) \in ReadsOf(w)
    /\ response[w] = CalculateWaivers(waiver_data, rows, call[w].input)

\* C14: whatever the interleaving of calls and catalog changes, every call
\* returns the result of evaluating all rules against one single snapshot
\* of its department's program codes and of the rule list.
C14_EveryCallUsesOneSnapshot ==
    \A w \in Workers :
        Answered(w) => \E rows \in CatalogStates : FromOneSnapshot(w, rows)

\* What does hold: a call all of whose reads found the same program codes
\* returns the result for that one catalog.
CallsWithOneCatalogUseOneSnapshot ==
    \A w \in Workers :
        (Answered(w) /\ Cardinality(ReadsOf(w)) = 1) =>
            \E rows \in CatalogStates : FromOneSnapshot(w, rows)

=============================================================================
